---- MODULE Spec2Model ----
(***************************************************************************)
(* Model of the OptionPricing repository: the Black-Scholes-Merton engine  *)
(* (OptionPricingDash.py) and the two entry points that feed it, the       *)
(* dashboard (atm_option_analysis.py) and the command-line report          *)
(* (live_data.py).                                                         *)
(*                                                                         *)
(* Floating-point values are modelled in fixed point:                      *)
(*   S, K, market prices   whole dollars                                   *)
(*   r, q                  hundredths (0.04 is 4)                          *)
(*   vol                   1/10000 (0.001 is 10, 0.20 is 2000)             *)
(*   T                     ticks, YearTicks ticks to the 365-day year      *)
(*   d1, d2                thousandths                                     *)
(*   cdf, pdf, exp         1/10000 (1.0 is ONE)                            *)
(*   option prices         1/1000000 dollar                                *)
(*   the Greeks            1/10000                                         *)
(***************************************************************************)
EXTENDS Integers, Sequences, FiniteSets, TLC

(* ------------------------------------------------------------------ *)
(* Bounds of the model                                                 *)
(* ------------------------------------------------------------------ *)

\* Ticks of the clock per calendar day (tick 0 of a day is midnight).
TicksPerDay == 2
\* Longest strike list of an option chain.
MaxStrikes == 3
\* Latest expiry day (days are numbered from 0).
MaxDay == 4

(* ------------------------------------------------------------------ *)
(* Units                                                               *)
(* ------------------------------------------------------------------ *)

\* 1.0 in fixed point.
ONE == 10000
\* The 365 of "1/365" and "days_to_expiry / 365".
DaysPerYear == 365
YearTicks == DaysPerYear * TicksPerDay

Abs(x) == IF x < 0 THEN -x ELSE x
\* Python's max(a, b) on numbers: b only when it is strictly greater.
PyMax(a, b) == IF b > a THEN b ELSE a

(* ------------------------------------------------------------------ *)
(* numpy / math / scipy.stats primitives, in fixed point               *)
(* ------------------------------------------------------------------ *)

RECURSIVE SqrtSearch(_, _, _)
SqrtSearch(n, lo, hi) ==
  IF lo >= hi THEN lo
  ELSE LET mid == (lo + hi + 1) \div 2
       IN  IF mid * mid <= n THEN SqrtSearch(n, mid, hi)
           ELSE SqrtSearch(n, lo, mid - 1)

\* np.sqrt(t), t in ticks, result in 1/10000.
NpSqrt(t) == SqrtSearch(t * ((ONE * ONE) \div YearTicks), 0, 46340)

\* np.log(S / K) in 1/10000, by 2*atanh((S-K)/(S+K)) = 2(z + z^3/3), for
\* the moneyness range of an option chain (|z| <= 0.1).
NpLog(S, K) ==
  LET z == ((S - K) * ONE) \div (S + K)
  IN  2 * z + (2 * z * z * z) \div (3 * ONE * ONE)

\* math.exp raises OverflowError when its argument exceeds 709.78: here the
\* argument is -rate * t, rate in hundredths and t in ticks.
ExpOverflows(rate, t) == rate < 0 /\ (-(rate \div 100)) * t > 709 * YearTicks

\* math.exp(-rate * t) in 1/10000, by 1 - x + x^2/2 - x^3/6 (|x| small).
ExpNeg(rate, t) ==
  LET x == (rate * 100 * t) \div YearTicks
  IN  ONE - x + (x * x) \div (2 * ONE) - (((x * x) \div ONE) * x) \div (6 * ONE)

\* The standard normal distribution function at 0.0, 0.1, ..., 4.1, in
\* 1/10000, kept below 1.0.
CdfTable ==
  << 5000, 5398, 5793, 6179, 6554, 6915, 7257, 7580, 7881, 8159,
     8413, 8643, 8849, 9032, 9192, 9332, 9452, 9554, 9641, 9713,
     9772, 9821, 9861, 9893, 9918, 9938, 9953, 9965, 9974, 9981,
     9987, 9990, 9993, 9995, 9997, 9998, 9998, 9999, 9999, 9999,
     9999, 9999 >>

\* The standard normal density at 0.0, 0.1, ..., 4.1, in 1/10000.
PdfTable ==
  << 3989, 3970, 3910, 3814, 3683, 3521, 3332, 3123, 2897, 2661,
     2420, 2179, 1942, 1714, 1497, 1295, 1109, 940, 790, 656,
     540, 440, 355, 283, 224, 175, 136, 104, 79, 60,
     44, 33, 24, 17, 12, 9, 6, 4, 3, 2,
     1, 1 >>

\* Linear interpolation in a table with knots every 0.1, a in thousandths.
Interp(tab, a) ==
  LET i == a \div 100
      f == a % 100
  IN  tab[i + 1] + ((tab[i + 2] - tab[i + 1]) * f) \div 100

\* norm.cdf(d) for d >= 0 (d in thousandths): below 1.0 up to 8.29 and
\* exactly 1.0 from 8.30 on.
CdfUpper(a) ==
  IF a >= 8300 THEN ONE
  ELSE IF a >= 4000 THEN ONE - 1
  ELSE Interp(CdfTable, a)

\* norm.cdf(d) for d < 0: underflows to exactly 0.0 from -38.48 down and is
\* positive above (at least one unit here, so that a model price is 0 only
\* where the double is 0.0; between -38.48 and -4 a price is thereby off by
\* up to one unit times the discounted spot or strike).
CdfLower(a) ==
  IF a >= 38480 THEN 0
  ELSE IF a >= 4000 THEN 1
  ELSE ONE - Interp(CdfTable, a)

NormCdf(d) == IF d >= 0 THEN CdfUpper(d) ELSE CdfLower(-d)

NormPdf(d) == IF Abs(d) >= 4100 THEN 0 ELSE Interp(PdfTable, Abs(d))

(* ------------------------------------------------------------------ *)
(* black_scholes (OptionPricingDash.py)                                *)
(* ------------------------------------------------------------------ *)

\* 0.001, the volatility floor, in 1/10000.
VolFloor == 10

\* A Python value that is None or a dict.
None == [isNone |-> TRUE, dict |-> << >>]
Dict(d) == [isNone |-> FALSE, dict |-> d]

\* Gate as it would be with T and vol left to the floors.
GateSpotStrikeOnly(S, K, t, vol) == S <= 0 \/ K <= 0

\* "if S <= 0 or K <= 0 or T <= 0 or vol <= 0: return None"
Gate(S, K, t, vol) == S <= 0 \/ K <= 0 \/ t <= 0 \/ vol <= 0

\* "T = max(T, 1/365)"
FloorT(t) == PyMax(t, YearTicks \div DaysPerYear)

\* "vol = max(vol, 0.001)"
FloorVol(vol) == PyMax(vol, VolFloor)

\* vol * np.sqrt(T), in 1/100000000.
VolSqrtT(t, vol) == vol * NpSqrt(t)

D1(S, K, r, t, q, vol) ==
  LET mu    == (r - q) * 100 + (vol * vol) \div (2 * ONE)
      drift == (mu * t) \div YearTicks
  IN  ((NpLog(S, K) + drift) * 10 * ONE) \div (VolSqrtT(t, vol) \div 100)

D2(d1, t, vol) == d1 - VolSqrtT(t, vol) \div (10 * ONE)

\* S * exp(-q * T) and K * exp(-r * T), in cents.
Discounted(X, rate, t) == (X * ExpNeg(rate, t)) \div 100

Gamma(S, t, q, vol, d1) ==
  (((NormPdf(d1) * ExpNeg(q, t)) \div S) * 100) \div (VolSqrtT(t, vol) \div 100)

Vega(S, t, q, d1) ==
  (((((NormPdf(d1) * NpSqrt(t)) \div ONE) * ExpNeg(q, t)) \div ONE) * S) \div 100

\* (S * norm.pdf(d1) * vol * exp(-q * T)) / (2 * np.sqrt(T))
ThetaDecay(S, t, q, vol, d1) ==
  LET a == (((NormPdf(d1) * vol) \div ONE) * ExpNeg(q, t)) \div ONE
  IN  ((S * a * 100) \div (2 * NpSqrt(t))) * 100

\* PutPrice as it would be with d1 and d2 exchanged.
PutPriceSwapped(S, K, r, t, q, d1, d2) ==
  Discounted(K, r, t) * NormCdf(-d1) - Discounted(S, q, t) * NormCdf(-d2)

CallPrice(S, K, r, t, q, d1, d2) ==
  Discounted(S, q, t) * NormCdf(d1) - Discounted(K, r, t) * NormCdf(d2)

PutPrice(S, K, r, t, q, d1, d2) ==
  Discounted(K, r, t) * NormCdf(-d2) - Discounted(S, q, t) * NormCdf(-d1)

CallDict(S, K, r, t, q, vol, d1, d2) ==
  LET sN1 == (Discounted(S, q, t) * NormCdf(d1)) \div ONE
      kN2 == (Discounted(K, r, t) * NormCdf(d2)) \div ONE
  IN  ("Call Price" :> CallPrice(S, K, r, t, q, d1, d2)) @@
      ("Call Delta" :> (NormCdf(d1) * ExpNeg(q, t)) \div ONE) @@
      ("Call Gamma" :> Gamma(S, t, q, vol, d1)) @@
      ("Call Vega"  :> Vega(S, t, q, d1)) @@
      ("Call Theta" :> (-ThetaDecay(S, t, q, vol, d1) - r * kN2 + q * sN1) \div 365) @@
      ("Call Rho"   :> (kN2 * t) \div YearTicks)

PutDict(S, K, r, t, q, vol, d1, d2) ==
  LET sN1 == (Discounted(S, q, t) * NormCdf(-d1)) \div ONE
      kN2 == (Discounted(K, r, t) * NormCdf(-d2)) \div ONE
  IN  ("Put Price" :> PutPrice(S, K, r, t, q, d1, d2)) @@
      ("Put Delta" :> (ExpNeg(q, t) * (NormCdf(d1) - ONE)) \div ONE) @@
      ("Put Gamma" :> Gamma(S, t, q, vol, d1)) @@
      ("Put Vega"  :> Vega(S, t, q, d1)) @@
      ("Put Theta" :> (-ThetaDecay(S, t, q, vol, d1) + r * kN2 - q * sN1) \div 365) @@
      ("Put Rho"   :> (-(kN2 * t)) \div YearTicks)

\* TryCompute as it would be if an unknown option_type got the shared Greeks.
TryComputePartial(S, K, r, t, q, vol, option_type) ==
  IF ExpOverflows(q, t) \/ ExpOverflows(r, t) THEN None
  ELSE LET d1 == D1(S, K, r, t, q, vol)
           d2 == D2(d1, t, vol)
       IN  IF option_type = "call" THEN Dict(CallDict(S, K, r, t, q, vol, d1, d2))
           ELSE IF option_type = "put" THEN Dict(PutDict(S, K, r, t, q, vol, d1, d2))
           ELSE Dict(("Gamma" :> Gamma(S, t, q, vol, d1)) @@ ("Vega" :> Vega(S, t, q, d1)))

\* The try block: any exception raised in it (math.exp's OverflowError, the
\* ValueError of an unknown option_type) is caught and None returned.
TryCompute(S, K, r, t, q, vol, option_type) ==
  IF ExpOverflows(q, t) \/ ExpOverflows(r, t) THEN None
  ELSE LET d1 == D1(S, K, r, t, q, vol)
           d2 == D2(d1, t, vol)
       IN  IF option_type = "call" THEN Dict(CallDict(S, K, r, t, q, vol, d1, d2))
           ELSE IF option_type = "put" THEN Dict(PutDict(S, K, r, t, q, vol, d1, d2))
           ELSE None

\* black_scholes as it would be with the floors applied before the gate.
black_scholes_floor_first(S, K, r, t, q, vol, option_type) ==
  IF Gate(S, K, FloorT(t), FloorVol(vol)) THEN None
  ELSE TryCompute(S, K, r, FloorT(t), q, FloorVol(vol), option_type)

black_scholes(S, K, r, t, q, vol, option_type) ==
  IF Gate(S, K, t, vol) THEN None
  ELSE TryCompute(S, K, r, FloorT(t), q, FloorVol(vol), option_type)

(* ------------------------------------------------------------------ *)
(* State                                                               *)
(* ------------------------------------------------------------------ *)

VARIABLES
  entry,           \* "dashboard", "cli", or "direct" (black_scholes called alone)
  pc,              \* position in the entry point
  spot_price,      \* hist_data['Close'].iloc[-1]
  strikes,         \* calls['strike'].tolist()
  atm_strike,
  atm_put_empty,   \* atm_put.empty
  expiry,          \* the expiry date: a day number, the timestamp is its midnight
  now,             \* [day, tick]: dt.datetime.now()
  days_to_expiry,
  T,
  warned,          \* the "expiring today or has expired" warning was emitted
  option_type,     \* the dashboard's radio: "Call" or "Put"
  iv,              \* per side: impliedVolatility of the ATM row
  market_price,    \* per side: lastPrice of the ATM row
  bs,              \* per side: what black_scholes returned
  mispricing,      \* per side
  out,             \* what was displayed, in order
  calls            \* the calls of black_scholes made, in order

vars == << entry, pc, spot_price, strikes, atm_strike, atm_put_empty, expiry, now,
           days_to_expiry, T, warned, option_type, iv, market_price, bs, mispricing,
           out, calls >>

Sides == {"call", "put"}

\* A float that may be not-a-number.
Num(v) == [nan |-> FALSE, v |-> v]
NaN == [nan |-> TRUE, v |-> 0]

\* A mispricing not computed (the variable is unbound).
Unbound == [kind |-> "unbound", v |-> 0]

\* r = 0.04 and q = 0.01, in hundredths.
RiskFreeRate == 4
DividendYield == 1

(* ------------------------------------------------------------------ *)
(* Inputs                                                              *)
(* ------------------------------------------------------------------ *)

StrikeSet == {95, 100, 102, 105}
SpotSet == {101}
RECURSIVE Distinct(_)
Distinct(xs) ==
  IF Len(xs) <= 1 THEN TRUE
  ELSE (\A i \in 2..Len(xs) : xs[i] # xs[1]) /\ Distinct(Tail(xs))
\* Non-empty strike columns of a chain (calls.empty is excluded before).
StrikeLists ==
  UNION { { xs \in [1..n -> StrikeSet] : Distinct(xs) } : n \in 1..MaxStrikes }
NowSet == [day : {1}, tick : 0..(TicksPerDay - 1)]
ExpirySet == 0..MaxDay
\* impliedVolatility as the data source reports it: nan, 0, 0.0005, 0.20.
IvSet == {NaN, Num(0), Num(5), Num(2000)}
LastPriceSet == {0, 5}
DataSet == {"ok", "no_history", "no_options", "empty_chain"}

\* Arguments of a direct call of black_scholes.
DirectS == {-5, 0, 100}
DirectK == {0, 100, 105}
DirectT == {-TicksPerDay, 0, 1, TicksPerDay, 91 * TicksPerDay}
DirectVol == {-10, 0, 5, VolFloor, 2000}
DirectQ == {DividendYield, -26000000}
DirectType == {"call", "put", "straddle"}

(* ------------------------------------------------------------------ *)
(* Shared Python semantics                                             *)
(* ------------------------------------------------------------------ *)

\* "lambda x: abs(x - spot_price)"
Distance(x, spot) == Abs(x - spot)

\* min(xs, key=Distance): the first element whose key is strictly below
\* every earlier one's.
RECURSIVE PyMinFrom(_, _, _, _)
PyMinFrom(xs, spot, i, best) ==
  IF i > Len(xs) THEN best
  ELSE PyMinFrom(xs, spot, i + 1,
                 IF Distance(xs[i], spot) < Distance(best, spot) THEN xs[i] ELSE best)

PyMin(xs, spot) == PyMinFrom(xs, spot, 2, xs[1])

\* min as it would be if a later element with an equal key replaced the best.
RECURSIVE PyMinLast(_, _, _, _)
PyMinLast(xs, spot, i, best) ==
  IF i > Len(xs) THEN best
  ELSE PyMinLast(xs, spot, i + 1,
                 IF Distance(xs[i], spot) <= Distance(best, spot) THEN xs[i] ELSE best)

\* (expiry_date - now).days: Timedelta.days is the floor of the difference
\* in days (-1 day, 14:00:00 has days = -1).
TimedeltaDays(e, n) == ((e - n.day) * TicksPerDay - n.tick) \div TicksPerDay

\* One call of black_scholes, as logged.
Call(by, S, K, r, t, q, vol, ot) ==
  [by |-> by, S |-> S, K |-> K, r |-> r, T |-> t, q |-> q, vol |-> vol,
   option_type |-> ot, ret |-> black_scholes(S, K, r, t, q, vol, ot)]

\* IvInvalid as it would be without np.isnan.
IvInvalidNoNan(x) == ~x.nan /\ x.v <= 0

\* "iv <= 0 or np.isnan(iv)" (a comparison with nan is False).
IvInvalid(x) == (~x.nan /\ x.v <= 0) \/ x.nan

\* ((market - model) / model) * 100 on numpy floats, in percent: a zero
\* divisor gives inf, -inf or nan (and a RuntimeWarning), never an exception.
Mispricing(market, model) ==
  LET m == market * ONE * 100
  IN  IF model = 0
      THEN [kind |-> IF m > 0 THEN "inf" ELSE IF m < 0 THEN "-inf" ELSE "nan", v |-> 0]
      ELSE [kind |-> "num", v |-> ((m - model) * 100) \div model]

Shown(side, what) == [side |-> side, what |-> what]

(* ------------------------------------------------------------------ *)
(* Initial state                                                       *)
(* ------------------------------------------------------------------ *)

Fresh ==
  /\ pc = "start"
  /\ spot_price = 0
  /\ strikes = << >>
  /\ atm_strike = 0
  /\ atm_put_empty = FALSE
  /\ expiry = 0
  /\ now = [day |-> 0, tick |-> 0]
  /\ days_to_expiry = 0
  /\ T = 0
  /\ warned = FALSE
  /\ option_type = ""
  /\ iv = [s \in Sides |-> NaN]
  /\ market_price = [s \in Sides |-> 0]
  /\ bs = [s \in Sides |-> None]
  /\ mispricing = [s \in Sides |-> Unbound]
  /\ out = << >>
  /\ calls = << >>

Init == entry \in {"dashboard", "cli"} /\ Fresh

EngineInit == entry = "direct" /\ Fresh

(* ------------------------------------------------------------------ *)
(* The analysis of one side, as both entry points write it             *)
(* ------------------------------------------------------------------ *)

QuoteFields(side) ==
  << Shown(side, "Market Price"), Shown(side, "Bid"), Shown(side, "Ask"),
     Shown(side, "Volume"), Shown(side, "Implied Volatility") >>

ModelFields(side) ==
  << Shown(side, "BSM Price"), Shown(side, "Mispricing"), Shown(side, "Delta"),
     Shown(side, "Gamma"), Shown(side, "Vega"), Shown(side, "Theta"),
     Shown(side, "Rho") >>

PriceKey(side) == IF side = "call" THEN "Call Price" ELSE "Put Price"

\* The dashboard's debug expander: the inputs and, for the side analysed, its
\* implied volatility and last price again.
DebugInputs ==
  << Shown("", "Debug Spot Price"), Shown("", "Debug ATM Strike"),
     Shown("", "Debug Time to Expiry"), Shown("", "Debug Risk-free Rate"),
     Shown("", "Debug Dividend Yield") >>

DebugFields(side) ==
  DebugInputs \o << Shown(side, "Debug IV"), Shown(side, "Debug Last Price") >>

\* The dashboard's branch for one side: what it binds, shows and calls.
DashSide(side, x, mkt) ==
  /\ iv' = [iv EXCEPT ![side] = x]
  /\ market_price' = [market_price EXCEPT ![side] = mkt]
  /\ IF IvInvalid(x)
     THEN /\ out' = out \o QuoteFields(side)
                        \o << Shown(side, "Invalid IV") >> \o DebugFields(side)
          /\ UNCHANGED << bs, mispricing, calls >>
     ELSE \E c \in { Call("dashboard", spot_price, atm_strike, RiskFreeRate, T,
                          DividendYield, x.v, side) } :
            /\ calls' = calls \o << c >>
            /\ bs' = [bs EXCEPT ![side] = c.ret]
            /\ IF ~c.ret.isNone
               THEN /\ mispricing' = [mispricing EXCEPT ![side] =
                                        Mispricing(mkt, c.ret.dict[PriceKey(side)])]
                    /\ out' = out \o QuoteFields(side) \o ModelFields(side)
                                  \o DebugFields(side)
               ELSE /\ out' = out \o QuoteFields(side)
                                  \o << Shown(side, "BS Error") >>
                                  \o DebugFields(side)
                    /\ UNCHANGED mispricing

\* The command-line report's block for one side.
CliSide(side, x, mkt) ==
  /\ iv' = [iv EXCEPT ![side] = x]
  /\ market_price' = [market_price EXCEPT ![side] = mkt]
  /\ IF IvInvalid(x)
     THEN /\ out' = out \o QuoteFields(side) \o << Shown(side, "Invalid IV") >>
                        \o (IF side = "put" THEN << Shown("", "Analysis Complete") >>
                            ELSE << >>)
          /\ UNCHANGED << bs, mispricing, calls >>
     ELSE \E c \in { Call("cli", spot_price, atm_strike, RiskFreeRate, T,
                          DividendYield, x.v, side) } :
            /\ calls' = calls \o << c >>
            /\ bs' = [bs EXCEPT ![side] = c.ret]
            /\ IF ~c.ret.isNone
               THEN /\ mispricing' = [mispricing EXCEPT ![side] =
                                        Mispricing(mkt, c.ret.dict[PriceKey(side)])]
                    /\ out' = out \o QuoteFields(side) \o ModelFields(side)
                                  \o (IF side = "put"
                                      THEN << Shown("", "Analysis Complete") >>
                                      ELSE << >>)
               ELSE /\ out' = out \o QuoteFields(side) \o << Shown(side, "BS Error") >>
                                  \o (IF side = "put"
                                      THEN << Shown("", "Analysis Complete") >>
                                      ELSE << >>)
                    /\ UNCHANGED mispricing

(* ------------------------------------------------------------------ *)
(* The dashboard (atm_option_analysis.py)                              *)
(* ------------------------------------------------------------------ *)

\* The ticker's data: spot price, the expiry selected, the option chain.
DashFetch ==
  /\ entry = "dashboard" /\ pc = "start"
  /\ \E data \in DataSet, sp \in SpotSet, e \in ExpirySet, xs \in StrikeLists :
       IF data = "no_history"
       THEN /\ out' = out \o << Shown("", "No price data") >>
            /\ pc' = "stopped"
            /\ UNCHANGED << spot_price, expiry, strikes >>
       ELSE IF data = "no_options"
       THEN /\ spot_price' = sp
            /\ out' = out \o << Shown("", "Spot Price"), Shown("", "No options data") >>
            /\ pc' = "stopped"
            /\ UNCHANGED << expiry, strikes >>
       ELSE IF data = "empty_chain"
       THEN /\ spot_price' = sp
            /\ expiry' = e
            /\ out' = out \o << Shown("", "Spot Price"), Shown("", "No option chain data") >>
            /\ pc' = "stopped"
            /\ UNCHANGED strikes
       ELSE /\ spot_price' = sp
            /\ expiry' = e
            /\ strikes' = xs
            /\ out' = out \o << Shown("", "Spot Price") >>
            /\ pc' = "atm"
  /\ UNCHANGED << entry, atm_strike, atm_put_empty, now, days_to_expiry, T, warned,
                  option_type, iv, market_price, bs, mispricing, calls >>

\* "atm_strike = min(strikes, key=lambda x: abs(x - spot_price))"
DashAtmStrike(xs, spot) == PyMin(xs, spot)

DashFindATM ==
  /\ entry = "dashboard" /\ pc = "atm"
  /\ atm_strike' = DashAtmStrike(strikes, spot_price)
  /\ atm_put_empty' \in BOOLEAN
  /\ out' = out \o << Shown("", "ATM Strike") >>
  /\ pc' = "expiry"
  /\ UNCHANGED << entry, spot_price, strikes, expiry, now, days_to_expiry, T, warned,
                  option_type, iv, market_price, bs, mispricing, calls >>

\* DashT as it would be with the floor left to the engine.
DashTNoFloor(days) ==
  [T |-> (days * YearTicks) \div DaysPerYear, warned |-> days <= 0]

\* The dashboard's T and warning for a day count.
DashT(days) ==
  IF days <= 0
  THEN [T |-> YearTicks \div DaysPerYear, warned |-> TRUE]
  ELSE [T |-> (days * YearTicks) \div DaysPerYear, warned |-> FALSE]

DashExpiry ==
  /\ entry = "dashboard" /\ pc = "expiry"
  /\ \E n \in NowSet :
       LET days == TimedeltaDays(expiry, n)
           norm == DashT(days)
       IN  /\ now' = n
           /\ days_to_expiry' = days
           /\ T' = norm.T
           /\ warned' = norm.warned
           /\ out' = out \o (IF norm.warned THEN << Shown("", "Warning") >> ELSE << >>)
                        \o << Shown("", "Days to Expiry"), Shown("", "Time to Expiry") >>
  /\ pc' = "analysis"
  /\ UNCHANGED << entry, spot_price, strikes, atm_strike, atm_put_empty, expiry,
                  option_type, iv, market_price, bs, mispricing, calls >>

\* The radio's side is analysed when its ATM row exists (the call row always
\* does: atm_strike is one of the calls' strikes); then the debug expander.
DashAnalyze ==
  /\ entry = "dashboard" /\ pc = "analysis"
  /\ \E radio \in {"Call", "Put"}, x \in IvSet, mkt \in LastPriceSet :
       /\ option_type' = radio
       /\ IF radio = "Call"
          THEN DashSide("call", x, mkt)
          ELSE IF ~atm_put_empty
          THEN DashSide("put", x, mkt)
          ELSE /\ out' = out \o DebugInputs
               /\ UNCHANGED << iv, market_price, bs, mispricing, calls >>
  /\ pc' = "done"
  /\ UNCHANGED << entry, spot_price, strikes, atm_strike, atm_put_empty, expiry, now,
                  days_to_expiry, T, warned >>

(* ------------------------------------------------------------------ *)
(* The command-line report (live_data.py)                              *)
(* ------------------------------------------------------------------ *)

CliFetch ==
  /\ entry = "cli" /\ pc = "start"
  /\ \E data \in DataSet, sp \in SpotSet, e \in ExpirySet, xs \in StrikeLists :
       IF data = "no_history"
       THEN /\ out' = out \o << Shown("", "No price data") >>
            /\ pc' = "stopped"
            /\ UNCHANGED << spot_price, expiry, strikes >>
       ELSE IF data = "no_options"
       THEN /\ spot_price' = sp
            /\ out' = out \o << Shown("", "Spot Price"), Shown("", "No options data") >>
            /\ pc' = "stopped"
            /\ UNCHANGED << expiry, strikes >>
       ELSE IF data = "empty_chain"
       THEN /\ spot_price' = sp
            /\ expiry' = e
            /\ out' = out \o << Shown("", "Spot Price"), Shown("", "Selected Expiry"),
                                Shown("", "No option chain data") >>
            /\ pc' = "stopped"
            /\ UNCHANGED strikes
       ELSE /\ spot_price' = sp
            /\ expiry' = e
            /\ strikes' = xs
            /\ out' = out \o << Shown("", "Spot Price"), Shown("", "Selected Expiry") >>
            /\ pc' = "atm"
  /\ UNCHANGED << entry, atm_strike, atm_put_empty, now, days_to_expiry, T, warned,
                  option_type, iv, market_price, bs, mispricing, calls >>

\* CliAtmStrike as it would be if the last of equidistant strikes won.
CliAtmStrikeLast(xs, spot) == PyMinLast(xs, spot, 2, xs[1])

\* "atm_strike = min(strikes, key=lambda x: abs(x - spot_price))"
CliAtmStrike(xs, spot) == PyMin(xs, spot)

CliFindATM ==
  /\ entry = "cli" /\ pc = "atm"
  /\ atm_strike' = CliAtmStrike(strikes, spot_price)
  /\ atm_put_empty' \in BOOLEAN
  /\ out' = out \o << Shown("", "ATM Strike") >>
  /\ pc' = "expiry"
  /\ UNCHANGED << entry, spot_price, strikes, expiry, now, days_to_expiry, T, warned,
                  option_type, iv, market_price, bs, mispricing, calls >>

\* CliT as it would be with "days_to_expiry < 0".
CliTStrict(days) ==
  IF days < 0
  THEN [T |-> YearTicks \div DaysPerYear, warned |-> TRUE]
  ELSE [T |-> (days * YearTicks) \div DaysPerYear, warned |-> FALSE]

\* The report's T and warning for a day count.
CliT(days) ==
  IF days <= 0
  THEN [T |-> YearTicks \div DaysPerYear, warned |-> TRUE]
  ELSE [T |-> (days * YearTicks) \div DaysPerYear, warned |-> FALSE]

CliExpiry ==
  /\ entry = "cli" /\ pc = "expiry"
  /\ \E n \in NowSet :
       LET days == TimedeltaDays(expiry, n)
           norm == CliT(days)
       IN  /\ now' = n
           /\ days_to_expiry' = days
           /\ T' = norm.T
           /\ warned' = norm.warned
           /\ out' = out \o (IF norm.warned THEN << Shown("", "Warning") >> ELSE << >>)
                        \o << Shown("", "Days to Expiry"), Shown("", "Time to Expiry") >>
  /\ pc' = "call"
  /\ UNCHANGED << entry, spot_price, strikes, atm_strike, atm_put_empty, expiry,
                  option_type, iv, market_price, bs, mispricing, calls >>

\* Step 7: the call (its ATM row always exists).
CliCall ==
  /\ entry = "cli" /\ pc = "call"
  /\ \E x \in IvSet, mkt \in LastPriceSet : CliSide("call", x, mkt)
  /\ pc' = "put"
  /\ UNCHANGED << entry, spot_price, strikes, atm_strike, atm_put_empty, expiry, now,
                  days_to_expiry, T, warned, option_type >>

\* Step 8: the put, when its ATM row exists; then "ANALYSIS COMPLETE".
CliPut ==
  /\ entry = "cli" /\ pc = "put"
  /\ IF ~atm_put_empty
     THEN \E x \in IvSet, mkt \in LastPriceSet : CliSide("put", x, mkt)
     ELSE /\ out' = out \o << Shown("", "Analysis Complete") >>
          /\ UNCHANGED << iv, market_price, bs, mispricing, calls >>
  /\ pc' = "done"
  /\ UNCHANGED << entry, spot_price, strikes, atm_strike, atm_put_empty, expiry, now,
                  days_to_expiry, T, warned, option_type >>

Next ==
  \/ DashFetch \/ DashFindATM \/ DashExpiry \/ DashAnalyze
  \/ CliFetch \/ CliFindATM \/ CliExpiry \/ CliCall \/ CliPut

Spec == Init /\ [][Next]_vars

(* ------------------------------------------------------------------ *)
(* black_scholes called alone                                          *)
(* ------------------------------------------------------------------ *)

DirectCall ==
  /\ entry = "direct" /\ pc = "start"
  /\ \E S \in DirectS, K \in DirectK, t \in DirectT, vol \in DirectVol,
        q \in DirectQ, ot \in DirectType :
       calls' = calls \o << Call("direct", S, K, RiskFreeRate, t, q, vol, ot) >>
  /\ pc' = "done"
  /\ UNCHANGED << entry, spot_price, strikes, atm_strike, atm_put_empty, expiry, now,
                  days_to_expiry, T, warned, option_type, iv, market_price, bs,
                  mispricing, out >>

EngineNext == DirectCall

EngineSpec == EngineInit /\ [][EngineNext]_vars

(* ------------------------------------------------------------------ *)
(* Properties                                                          *)
(* ------------------------------------------------------------------ *)

CallKeys == {"Call Price", "Call Delta", "Call Gamma", "Call Vega", "Call Theta", "Call Rho"}
PutKeys == {"Put Price", "Put Delta", "Put Gamma", "Put Vega", "Put Theta", "Put Rho"}

\* 1/365 of a year, in ticks.
OneDay == TicksPerDay

\* T and vol as the engine uses them once the gate has passed.
EffectiveT(t) == IF t < OneDay THEN OneDay ELSE t
EffectiveVol(vol) == IF vol < 10 THEN 10 ELSE vol

\* The try block raises for these arguments.
Raises(c) ==
  \/ c.option_type \notin {"call", "put"}
  \/ ExpOverflows(c.q, EffectiveT(c.T))
  \/ ExpOverflows(c.r, EffectiveT(c.T))

\* The normaliser has run and the analysis went on.
Normalised == pc \in {"analysis", "call", "put", "done"}

\* The ATM strike has been selected.
Selected == pc \in {"expiry", "analysis", "call", "put", "done"}

\* The side's block was entered: its market quote is on display.
Analysed(s) == \E i \in 1..Len(out) : out[i] = Shown(s, "Implied Volatility")

IsSide(s, o) == o.side = s
OutOf(s) == LET Test(o) == IsSide(s, o) IN SelectSeq(out, Test)

\* C1: a call of black_scholes with S <= 0 or K <= 0 or T <= 0 or vol <= 0
\* returns None, whatever the option_type.
C1_InvalidInputsRejected ==
  \A i \in 1..Len(calls) :
    LET c == calls[i]
    IN  (c.S <= 0 \/ c.K <= 0 \/ c.T <= 0 \/ c.vol <= 0) => c.ret = None

\* S = -5 with everything else valid, on the put side, was rejected.
C1_Witness ==
  \E i \in 1..Len(calls) :
    LET c == calls[i]
    IN  /\ c.S = -5 /\ c.K > 0 /\ c.T > 0 /\ c.vol > 0
        /\ c.option_type = "put"
        /\ c.ret = None

\* C2: the gate reads the raw T and vol and the floors come after it: a call
\* with T <= 0 or vol <= 0 returns None (the floor does not rescue it), and
\* a call with S, K, T, vol > 0 passes the gate and is computed as the same
\* call with T raised to 1/365 and vol raised to 0.001, which gives a price
\* unless the computation itself raises.
C2_GateThenFloor ==
  \A i \in 1..Len(calls) :
    LET c == calls[i]
    IN  /\ (c.T <= 0 \/ c.vol <= 0) => c.ret = None
        /\ (c.S > 0 /\ c.K > 0 /\ c.T > 0 /\ c.vol > 0) =>
             /\ c.ret = black_scholes(c.S, c.K, c.r, EffectiveT(c.T), c.q,
                                      EffectiveVol(c.vol), c.option_type)
             /\ ~Raises(c) => ~c.ret.isNone

\* A call with T and vol both positive and below their floors was priced.
C2_Witness ==
  \E i \in 1..Len(calls) :
    LET c == calls[i]
    IN  /\ c.S > 0 /\ c.K > 0
        /\ 0 < c.T /\ c.T < OneDay
        /\ 0 < c.vol /\ c.vol < 10
        /\ ~c.ret.isNone

\* C7: black_scholes returns None or a dict of exactly the six keys of the
\* side asked for; an option_type that is neither 'call' nor 'put', like
\* any exception of the computation, gives None.
C7_AllOrNothing ==
  \A i \in 1..Len(calls) :
    LET c == calls[i]
    IN  /\ \/ c.ret = None
           \/ ~c.ret.isNone /\ c.option_type = "call" /\ DOMAIN c.ret.dict = CallKeys
           \/ ~c.ret.isNone /\ c.option_type = "put" /\ DOMAIN c.ret.dict = PutKeys
        /\ Raises(c) => c.ret = None

\* Valid numbers with an unknown option_type: the ValueError became None.
C7_Witness ==
  \E i \in 1..Len(calls) :
    LET c == calls[i]
    IN  /\ c.S > 0 /\ c.K > 0 /\ c.T > 0 /\ c.vol > 0
        /\ c.option_type = "straddle"
        /\ ~ExpOverflows(c.q, EffectiveT(c.T))
        /\ c.ret = None

\* C8: when a call is priced, the put for the same arguments is priced too
\* and callPrice - putPrice = S*exp(-qT) - K*exp(-rT), T as clamped, to
\* within one unit of the distribution function on each leg.
C8_PutCallParity ==
  \A i \in 1..Len(calls) :
    LET c == calls[i]
        p == black_scholes(c.S, c.K, c.r, c.T, c.q, c.vol, "put")
        s == Discounted(c.S, c.q, EffectiveT(c.T))
        k == Discounted(c.K, c.r, EffectiveT(c.T))
    IN  (c.option_type = "call" /\ ~c.ret.isNone) =>
          /\ ~p.isNone
          /\ Abs((c.ret.dict["Call Price"] - p.dict["Put Price"]) - (s - k) * ONE)
               <= s + k

\* An out-of-the-money call was priced above zero.
C8_Witness ==
  \E i \in 1..Len(calls) :
    LET c == calls[i]
    IN  /\ c.option_type = "call" /\ c.S = 100 /\ c.K = 105
        /\ ~c.ret.isNone
        /\ c.ret.dict["Call Price"] > 0

\* C3: the ATM strike is a member of the strike list at minimal distance from
\* the spot, the first such member in the list's order, and the dashboard's
\* and the report's selection give that same strike.
C3_AtmFirstNearest ==
  Selected =>
    /\ \E i \in 1..Len(strikes) :
         /\ strikes[i] = atm_strike
         /\ \A j \in 1..Len(strikes) :
              Abs(strikes[j] - spot_price) >= Abs(strikes[i] - spot_price)
         /\ \A j \in 1..(i - 1) :
              Abs(strikes[j] - spot_price) > Abs(strikes[i] - spot_price)
    /\ DashAtmStrike(strikes, spot_price) = atm_strike
    /\ CliAtmStrike(strikes, spot_price) = atm_strike

\* A tie: 100 and 102 are both 1 from the spot 101, and 100 comes first.
C3_Witness ==
  /\ Selected
  /\ strikes = << 100, 102 >>
  /\ spot_price = 101
  /\ atm_strike = 100

\* C4: after normalisation, a day count <= 0 gives T = 1/365 and the warning,
\* a day count > 0 gives T = days/365 and no warning; T >= 1/365 always.
C4_ExpiryNormalised ==
  Normalised =>
    /\ IF days_to_expiry <= 0
       THEN /\ T * DaysPerYear = YearTicks
            /\ warned
            /\ \E i \in 1..Len(out) : out[i] = Shown("", "Warning")
       ELSE /\ T * DaysPerYear = days_to_expiry * YearTicks
            /\ ~warned
            /\ \A i \in 1..Len(out) : out[i] # Shown("", "Warning")
    /\ T * DaysPerYear >= YearTicks

\* A day count of 0: floored, warned, and the analysis ran to its end.
C4_Witness ==
  /\ pc = "done"
  /\ days_to_expiry = 0
  /\ warned
  /\ T = OneDay
  /\ Len(calls) > 0

\* C5: a model price of exactly 0 leaves the mispricing uncomputed; any
\* other model price gives (market - model) / model * 100.
C5_NoDivisionByZero ==
  \A s \in Sides :
    (Analysed(s) /\ ~bs[s].isNone) =>
      LET model == bs[s].dict[PriceKey(s)]
      IN  IF model = 0
          THEN mispricing[s] = Unbound
          ELSE mispricing[s] =
                 [kind |-> "num",
                  v |-> ((market_price[s] * ONE * 100 - model) * 100) \div model]

\* The raw fields of a market quote, as displayed.
RawQuote ==
  {"Market Price", "Bid", "Ask", "Volume", "Implied Volatility", "Debug IV",
   "Debug Last Price"}

\* C6: a side whose implied volatility is <= 0 or nan shows its market quote
\* and then the error, and beyond them raw quote fields only: black_scholes
\* is not called for it, and no model price, mispricing or Greeks are bound
\* or shown.
C6_InvalidIvGatesEngine ==
  \A s \in Sides :
    (Analysed(s) /\ (iv[s].nan \/ iv[s].v <= 0)) =>
      /\ \A i \in 1..Len(calls) : calls[i].option_type # s
      /\ bs[s] = None
      /\ mispricing[s] = Unbound
      /\ Len(OutOf(s)) >= 6
      /\ SubSeq(OutOf(s), 1, 6) = QuoteFields(s) \o << Shown(s, "Invalid IV") >>
      /\ \A i \in 1..Len(OutOf(s)) :
           OutOf(s)[i].what \in RawQuote \cup {"Invalid IV"}

\* The report's put with a nan implied volatility, after a priced call.
C6_Witness ==
  /\ entry = "cli" /\ pc = "done"
  /\ iv["put"].nan
  /\ Analysed("put")
  /\ ~bs["call"].isNone

\* C9: the day count is <= 0, and the warning emitted, exactly when the
\* expiry date is the calendar day of now or an earlier day.
C9_FloorIffTodayOrPast ==
  Normalised =>
    /\ (days_to_expiry <= 0) <=> (expiry <= now.day)
    /\ warned <=> (expiry <= now.day)

\* C10: the normaliser's floor and the engine's floor are the same 1/365,
\* and every call of black_scholes by an entry point passes the normaliser's
\* T, which is >= 1/365: the gate's T <= 0 is false and max(T, 1/365) is T.
C10_FloorsAgree ==
  /\ DashT(0).T = FloorT(0)
  /\ CliT(0).T = FloorT(0)
  /\ \A i \in 1..Len(calls) :
       LET c == calls[i]
       IN  /\ c.T = T
           /\ c.T * DaysPerYear >= YearTicks
           /\ ~(c.T <= 0)
           /\ FloorT(c.T) = c.T

\* A call made with the floored T of an expiry that has passed.
C10_Witness ==
  /\ Len(calls) > 0
  /\ days_to_expiry < 0
  /\ calls[1].T = OneDay
  /\ ~calls[1].ret.isNone

====
